---- MODULE Spec2Model ----
(***************************************************************************)
(* The MongoDB Data API replacement: a Fastify server (index.ts) routing   *)
(* POST /action/:actionName to nine operation handlers (handlers.ts) over  *)
(* the DatabaseManager singleton (database.ts).                            *)
(*                                                                         *)
(* Node runs every callback to its first await without interleaving, so    *)
(* one action of the model is the code between two awaits.  The awaits of  *)
(* the program are client.connect(), the single driver call of a handler,  *)
(* client.close() and fastify.close().                                     *)
(*                                                                         *)
(* Spec      the server under concurrent requests and termination signals  *)
(* SeqSpec   the server taking one action request at a time, over every    *)
(*           action name and every envelope                                *)
(* ManagerSpec  the exported DatabaseManager under arbitrary callers       *)
(***************************************************************************)
EXTENDS Bags, FiniteSets, Integers, Sequences, TLC

\* ------------------------------------------------------------------ bounds
\* MongoClient objects the process may construct in one run.
MaxClients == 2
\* Action requests suspended at an await at the same time.
MaxInFlight == 2
\* DatabaseManager calls suspended at an await at the same time (ManagerSpec).
MaxCalls == 2

\* ------------------------------------------------------------------ values
\* A property that is not present in the JSON body (JS undefined).
Absent == "undefined"
\* this.client = null; also "no Db cached under this name".
NoClient == 0
ClientIds == 1..MaxClients

Supported ==
  {"findOne", "find", "insertOne", "insertMany", "updateOne", "updateMany",
   "deleteOne", "deleteMany", "aggregate"}
\* The :actionName segments requests are drawn from.
ActionNames == Supported \cup {"doSomething", ""}

DbNames == {"db1", "db2"}
Bodies ==
  [dataSource : {Absent, "", "Cluster0"},
   database   : {Absent, ""} \cup DbNames,
   collection : {Absent, "", "c1"}]
ValidBody(db) == [dataSource |-> "Cluster0", database |-> db, collection |-> "c1"]

\* Inputs of the concurrent specification: every branch of the router, a
\* read and a write handler, both database names.
SomeActions == {"findOne", "updateMany", "doSomething", ""}
SomeBodies ==
  {ValidBody("db1"), ValidBody("db2"),
   [ValidBody("db1") EXCEPT !.dataSource = Absent],
   [ValidBody("db1") EXCEPT !.database = ""],
   [ValidBody("db2") EXCEPT !.collection = Absent]}

Signals == {"SIGINT", "SIGTERM"}

VARIABLES
  hasUri,      \* MONGODB_URI is a non-empty string
  client,      \* DatabaseManager.client: NoClient or the id of a MongoClient
  databases,   \* DatabaseManager.databases: name -> client the Db was made from
  connState,   \* per MongoClient: "unused", "pending", "ok", "failed" (its connect())
  closeState,  \* per MongoClient: "open", "closing", "closed" (its close())
  inflight,    \* bag of action requests suspended at an await
  shutdown,    \* per signal: position of its gracefulShutdown
  server,      \* "listening", "closing" (fastify.close() called), "exited"
  calls,       \* ManagerSpec: bag of connect()/close() calls suspended at an await
  reply,       \* history: the response sent by the step just taken
  ret,         \* history: the getDatabase/connect/close call of the step just taken
  createdSinceClose, \* history: MongoClients constructed since close last reset the manager
  madeSinceClose     \* history: per name, Db objects made by client.db(name) since that reset

mgr == <<client, databases, connState, closeState>>
vars ==
  <<hasUri, client, databases, connState, closeState, inflight, shutdown,
    server, calls, reply, ret, createdSinceClose, madeSinceClose>>

NoReply == [kind |-> "none", status |-> 0]
NoRet == [op |-> "none"]
NoResult == [none |-> TRUE]
NoDatabases == [n \in DbNames |-> NoClient]

Init ==
  /\ hasUri \in BOOLEAN
  /\ client = NoClient
  /\ databases = NoDatabases
  /\ connState = [c \in ClientIds |-> "unused"]
  /\ closeState = [c \in ClientIds |-> "open"]
  /\ inflight = EmptyBag
  /\ shutdown = [s \in Signals |-> [pc |-> "idle", cl |-> NoClient]]
  /\ server = "listening"
  /\ calls = EmptyBag
  /\ reply = NoReply
  /\ ret = NoRet
  /\ createdSinceClose = 0
  /\ madeSinceClose = [n \in DbNames |-> 0]

\* ------------------------------------------------- DatabaseManager (database.ts)
\* isConnected(): this.client !== null
isConnected == client # NoClient

\* A connect() that constructs a client whether or not one exists.
connectCreates_always == TRUE

\* connect(): the test `if (!this.client)`; the branch constructs a MongoClient,
\* assigns it to this.client and suspends at `await this.client.connect()`.
connectCreates == client = NoClient

\* The MongoClient object `new MongoClient(...)` yields: one never seen before.
HasFresh == \E c \in ClientIds : connState[c] = "unused"
Fresh == CHOOSE c \in ClientIds :
           connState[c] = "unused" /\ \A d \in ClientIds : d < c => connState[d] # "unused"

\* getDatabase(): `if (!this.client) throw new Error('Database client not connected')`
getDatabaseThrows == client = NoClient
NotConnectedMessage == "Database client not connected"

\* A getDatabase() that never finds the name cached.
getDatabaseMisses_always(name) == TRUE

\* getDatabase(): the test `if (!this.databases.has(databaseName))`
getDatabaseMisses(name) == databases[name] = NoClient

\* getDatabase(): the Db objects client.db(name) has made, after the call.
getDatabaseMade(name) ==
  IF getDatabaseMisses(name)
    THEN [madeSinceClose EXCEPT ![name] = @ + 1]
    ELSE madeSinceClose

\* getDatabase(): the cache after the call (set on a miss, untouched on a hit).
getDatabaseCache(name) ==
  IF getDatabaseMisses(name)
    THEN [databases EXCEPT ![name] = client]
    ELSE databases

\* getDatabase(): the Db returned, named by the client it was made from.
getDatabaseReturn(name) == getDatabaseCache(name)[name]

\* A close() that forgets to clear the cache.
closeDatabases_kept == databases

\* close(): the test `if (this.client)`; the branch suspends at
\* `await this.client.close()` and then resets client and cache.
closeActs == client # NoClient
closeClient == NoClient
closeDatabases == NoDatabases

\* A connect has succeeded since the manager was created or last reset.
ConnectSucceeded == client # NoClient /\ connState[client] = "ok"

\* ------------------------------------------------------ handlers (handlers.ts)
ErrorCode(a) ==
  CASE a = "findOne"    -> "FIND_ONE_ERROR"
    [] a = "find"       -> "FIND_ERROR"
    [] a = "insertOne"  -> "INSERT_ONE_ERROR"
    [] a = "insertMany" -> "INSERT_MANY_ERROR"
    [] a = "updateOne"  -> "UPDATE_ONE_ERROR"
    [] a = "updateMany" -> "UPDATE_MANY_ERROR"
    [] a = "deleteOne"  -> "DELETE_ONE_ERROR"
    [] a = "deleteMany" -> "DELETE_MANY_ERROR"
    [] a = "aggregate"  -> "AGGREGATE_ERROR"

FailedTo(a) ==
  CASE a = "findOne"    -> "Failed to find document: "
    [] a = "find"       -> "Failed to find documents: "
    [] a = "insertOne"  -> "Failed to insert document: "
    [] a = "insertMany" -> "Failed to insert documents: "
    [] a = "updateOne"  -> "Failed to update document: "
    [] a = "updateMany" -> "Failed to update documents: "
    [] a = "deleteOne"  -> "Failed to delete document: "
    [] a = "deleteMany" -> "Failed to delete documents: "
    [] a = "aggregate"  -> "Failed to aggregate documents: "

\* The success shape of each handler, over one opaque driver result.
SuccessPayload(a) ==
  CASE a = "findOne"    -> [document |-> "doc"]
    [] a = "find"       -> [documents |-> <<"doc">>]
    [] a = "insertOne"  -> [insertedId |-> "id"]
    [] a = "insertMany" -> [insertedIds |-> <<"id">>]
    [] a = "updateOne"  -> [matchedCount |-> 1, modifiedCount |-> 1]
    [] a = "updateMany" -> [matchedCount |-> 1, modifiedCount |-> 1]
    [] a = "deleteOne"  -> [deletedCount |-> 1]
    [] a = "deleteMany" -> [deletedCount |-> 1]
    [] a = "aggregate"  -> [documents |-> <<"doc">>]

\* The message of an error thrown by the driver call itself.
DriverMessage == "driver error"

\* A handler whose catch rethrows.
HandlerOutcome_rethrow(a, failure) ==
  IF failure = ""
    THEN [threw |-> FALSE, payload |-> SuccessPayload(a)]
    ELSE [threw |-> TRUE, payload |-> NoResult]

\* try { ... } catch (error) { return {error, error_code} } of a handler:
\* failure is "" when getCollection and the driver call succeed, else the
\* message of what was thrown.  threw: the handler's promise rejects.
HandlerOutcome(a, failure) ==
  IF failure = ""
    THEN [threw |-> FALSE, payload |-> SuccessPayload(a)]
    ELSE [threw |-> FALSE,
          payload |-> [error |-> FailedTo(a) \o failure, error_code |-> ErrorCode(a)]]

\* ------------------------------------------------------------ router (index.ts)
Null == "null"

\* A route handler that connects without looking at MONGODB_URI.
uriMissing_never == FALSE

\* `if (!MONGODB_URI)`
uriMissing == ~hasUri

\* Fastify validates the body against actionRequestSchema before the handler
\* runs: the first required property that is absent, "" when there is none.
SchemaError(body) ==
  IF body.dataSource = Absent THEN "dataSource"
  ELSE IF body.database = Absent THEN "database"
  ELSE IF body.collection = Absent THEN "collection"
  ELSE ""

\* Fastify's reply to a body that fails the schema (no error handler is set).
FastifyValidationBody(field) ==
  [statusCode |-> 400, code |-> "FST_ERR_VALIDATION", error |-> "Bad Request",
   message |-> "body must have required property '" \o field \o "'"]

Falsy(v) == v = Absent \/ v = ""

validateRequest(body) ==
  IF Falsy(body.dataSource) THEN "Missing required field: dataSource"
  ELSE IF Falsy(body.database) THEN "Missing required field: database"
  ELSE IF Falsy(body.collection) THEN "Missing required field: collection"
  ELSE Null

InvalidRequestBody(msg) == [error |-> msg, error_code |-> "INVALID_REQUEST"]
UriMissingBody == [error |-> "MongoDB URI not configured", error_code |-> "MONGODB_URI_MISSING"]
MissingActionBody ==
  [error |-> "Action not specified in URL path.", error_code |-> "MISSING_ACTION"]
\* A catch-all that reports what was thrown.
InternalErrorBody_detailed == [error |-> "connect failed", error_code |-> "INTERNAL_ERROR"]
InternalErrorBody == [error |-> "Internal server error", error_code |-> "INTERNAL_ERROR"]

\* A default branch that reports the wrong code.
UnknownActionResult_asMissing(a) == MissingActionBody

\* handleAction(): the default branch of the switch.
UnknownActionResult(a) == [error |-> "Unknown action: " \o a, error_code |-> "INVALID_ACTION"]

\* A route handler that answers 200 whatever the handler returned.
ResultStatus_ok(result) == 200

\* `if ("error" in result) 400 else 200`
ResultStatus(result) == IF "error" \in DOMAIN result THEN 400 ELSE 200

\* ------------------------------------------------ the server's steps (index.ts)
\* reply and ret are cleared (Forget) before the next callback is taken, so
\* that each names the step just taken and nothing older.
Quiet == reply = NoReply /\ ret = NoRet

\* The response to POST /action/{a} with body b, with what led to it:
\* wasConnected is isConnected() as the route handler read it, connect the
\* outcome of the connect made for this request ("none", "ok", "failed"),
\* handler the operation handler that ran ("none" if none did), failure the
\* message of what was thrown inside it ("" if nothing was) and result the
\* payload it returned.
ActionReply(a, b, wasConn, conn, handler, result, status, body) ==
  [kind |-> "action", action |-> a, envelope |-> b, wasConnected |-> wasConn,
   connect |-> conn, handler |-> handler, failure |-> "", result |-> result,
   status |-> status, body |-> body]

\* A request suspended at `await this.client.connect()` (pc "connect", cl the
\* client) or at the driver call of its handler (pc "db").
Suspended(pc, a, b, wasConn, cl) ==
  [pc |-> pc, action |-> a, envelope |-> b, wasConnected |-> wasConn, cl |-> cl]

\* reply.status(..).send(..) with no DatabaseManager state touched.
SendOnly(r, rest) ==
  /\ reply' = r
  /\ ret' = NoRet
  /\ inflight' = rest
  /\ UNCHANGED <<client, connState, createdSinceClose, databases, madeSinceClose>>

\* The route handler once a handler's promise has settled: `"error" in result`
\* picks the status; a rejection goes to the catch-all.
Finish(a, b, wasConn, conn, failure, rest) ==
  LET outcome == HandlerOutcome(a, failure) IN
  /\ reply' =
       [(IF outcome.threw
           THEN ActionReply(a, b, wasConn, conn, a, NoResult, 500, InternalErrorBody)
           ELSE ActionReply(a, b, wasConn, conn, a, outcome.payload,
                            ResultStatus(outcome.payload), outcome.payload))
        EXCEPT !.failure = failure]
  /\ inflight' = rest

\* The route handler from `const action = request.params.actionName` on, up to
\* its reply or to the driver call of the operation handler: handleAction's
\* switch, the handler's getCollection, the driver call.  connected: a connect
\* of the current client has succeeded.
Dispatch(a, b, wasConn, conn, connected, rest) ==
  IF a = ""
    THEN /\ reply' = ActionReply(a, b, wasConn, conn, "none", NoResult, 400, MissingActionBody)
         /\ ret' = NoRet
         /\ inflight' = rest
         /\ UNCHANGED <<databases, madeSinceClose>>
  ELSE IF a \notin Supported
    THEN /\ reply' = ActionReply(a, b, wasConn, conn, "none", UnknownActionResult(a),
                                 ResultStatus(UnknownActionResult(a)), UnknownActionResult(a))
         /\ ret' = NoRet
         /\ inflight' = rest
         /\ UNCHANGED <<databases, madeSinceClose>>
  ELSE IF getDatabaseThrows
    THEN /\ Finish(a, b, wasConn, conn, NotConnectedMessage, rest)
         /\ ret' = [op |-> "getDatabase", name |-> b.database, threw |-> TRUE,
                    hit |-> FALSE, handle |-> NoClient, connected |-> connected]
         /\ UNCHANGED <<databases, madeSinceClose>>
  ELSE /\ databases' = getDatabaseCache(b.database)
       /\ madeSinceClose' = getDatabaseMade(b.database)
       /\ ret' = [op |-> "getDatabase", name |-> b.database, threw |-> FALSE,
                  hit |-> ~getDatabaseMisses(b.database),
                  handle |-> getDatabaseReturn(b.database), connected |-> connected]
       /\ inflight' = rest (+) SetToBag({Suspended("db", a, b, wasConn, NoClient)})
       /\ reply' = NoReply

\* POST /action/{a} with body b, from Fastify's validation of the body to the
\* first await of the route handler.
ActionRequest(a, b) ==
  /\ server = "listening"
  /\ Quiet
  /\ UNCHANGED <<hasUri, closeState, shutdown, server, calls>>
  /\ IF SchemaError(b) # ""
       THEN SendOnly(ActionReply(a, b, isConnected, "none", "none", NoResult, 400,
                                 FastifyValidationBody(SchemaError(b))), inflight)
     ELSE IF validateRequest(b) # Null
       THEN SendOnly(ActionReply(a, b, isConnected, "none", "none", NoResult, 400,
                                 InvalidRequestBody(validateRequest(b))), inflight)
     ELSE IF ~isConnected
       THEN IF uriMissing
              THEN SendOnly(ActionReply(a, b, FALSE, "none", "none", NoResult, 500,
                                        UriMissingBody), inflight)
            ELSE IF connectCreates
              THEN /\ HasFresh
                   /\ client' = Fresh
                   /\ connState' = [connState EXCEPT ![Fresh] = "pending"]
                   /\ createdSinceClose' = createdSinceClose + 1
                   /\ inflight' = inflight (+) SetToBag({Suspended("connect", a, b, FALSE, Fresh)})
                   /\ reply' = NoReply
                   /\ ret' = NoRet
                   /\ UNCHANGED <<databases, madeSinceClose>>
            ELSE /\ Dispatch(a, b, FALSE, "none", ConnectSucceeded, inflight)
                 /\ UNCHANGED <<client, connState, createdSinceClose>>
     ELSE /\ Dispatch(a, b, TRUE, "none", ConnectSucceeded, inflight)
          /\ UNCHANGED <<client, connState, createdSinceClose>>

\* `await this.client.connect()` settles for request q: a rejection leaves
\* connect() and the route handler through the catch-all, a resolution lets the
\* route handler go on to dispatch.
ConnectSettle(q, ok) ==
  /\ server # "exited"
  /\ Quiet
  /\ q \in BagToSet(inflight)
  /\ q.pc = "connect"
  /\ connState' = [connState EXCEPT ![q.cl] = IF ok THEN "ok" ELSE "failed"]
  /\ UNCHANGED <<hasUri, client, closeState, shutdown, server, calls, createdSinceClose>>
  /\ LET rest == inflight (-) SetToBag({q}) IN
     IF ok
       THEN Dispatch(q.action, q.envelope, FALSE, "ok", client = q.cl, rest)
       ELSE /\ reply' = ActionReply(q.action, q.envelope, FALSE, "failed", "none",
                                    NoResult, 500, InternalErrorBody)
            /\ ret' = NoRet
            /\ inflight' = rest
            /\ UNCHANGED <<databases, madeSinceClose>>

\* The driver call of q's handler settles; the handler maps the result or
\* catches the error, and the route handler replies.
DbSettle(q, ok) ==
  /\ server # "exited"
  /\ Quiet
  /\ q \in BagToSet(inflight)
  /\ q.pc = "db"
  /\ Finish(q.action, q.envelope, q.wasConnected,
            IF q.wasConnected THEN "none" ELSE "ok",
            IF ok THEN "" ELSE DriverMessage,
            inflight (-) SetToBag({q}))
  /\ ret' = NoRet
  /\ UNCHANGED <<hasUri, client, databases, madeSinceClose, connState, closeState, shutdown,
                 server, calls, createdSinceClose>>

\* A health check that reports whether the connection is established.
HealthConnected_live == ConnectSucceeded

\* What GET /health reports as mongoConnected.
HealthConnected == isConnected

\* GET /health (the timestamp is left out).
Health ==
  /\ server = "listening"
  /\ Quiet
  /\ reply' = [kind |-> "health", status |-> 200,
               body |-> [status |-> "healthy", mongoConnected |-> HealthConnected]]
  /\ UNCHANGED <<hasUri, client, databases, madeSinceClose, connState, closeState, inflight,
                 shutdown, server, calls, ret, createdSinceClose>>

\* gracefulShutdown(sig) up to its first await: dbManager.close() suspends at
\* client.close() when a client exists; otherwise it returns and
\* fastify.close() is called in the same turn.
Signal(sig) ==
  /\ server # "exited"
  /\ Quiet
  /\ shutdown[sig].pc = "idle"
  /\ IF closeActs
       THEN /\ closeState' = [closeState EXCEPT ![client] = "closing"]
            /\ shutdown' = [shutdown EXCEPT ![sig] = [pc |-> "closingDb", cl |-> client]]
            /\ UNCHANGED server
       ELSE /\ shutdown' = [shutdown EXCEPT ![sig] = [pc |-> "closingServer", cl |-> NoClient]]
            /\ server' = "closing"
            /\ UNCHANGED closeState
  /\ UNCHANGED <<hasUri, client, databases, madeSinceClose, connState, inflight, calls, reply,
                 ret, createdSinceClose>>

\* `await this.client.close()` settles: close() resets client and cache and
\* returns, and gracefulShutdown calls fastify.close() in the same turn.
CloseSettle(sig) ==
  /\ server # "exited"
  /\ Quiet
  /\ shutdown[sig].pc = "closingDb"
  /\ client' = closeClient
  /\ databases' = closeDatabases
  /\ madeSinceClose' = [n \in DbNames |-> 0]
  /\ createdSinceClose' = 0
  /\ closeState' = [closeState EXCEPT ![shutdown[sig].cl] = "closed"]
  /\ shutdown' = [shutdown EXCEPT ![sig].pc = "closingServer"]
  /\ server' = "closing"
  /\ UNCHANGED <<hasUri, connState, inflight, calls, reply, ret>>

\* fastify.close() settles once no request is being served; process.exit(0).
Exit(sig) ==
  /\ server = "closing"
  /\ Quiet
  /\ shutdown[sig].pc = "closingServer"
  /\ inflight = EmptyBag
  /\ server' = "exited"
  /\ UNCHANGED <<hasUri, client, databases, madeSinceClose, connState, closeState, inflight,
                 shutdown, calls, reply, ret, createdSinceClose>>

\* The turn of the event loop ends.
Forget ==
  /\ ~Quiet
  /\ reply' = NoReply
  /\ ret' = NoRet
  /\ UNCHANGED <<hasUri, client, databases, madeSinceClose, connState, closeState, inflight,
                 shutdown, server, calls, createdSinceClose>>

Next ==
  \/ \E a \in SomeActions, b \in SomeBodies :
       BagCardinality(inflight) < MaxInFlight /\ ActionRequest(a, b)
  \/ \E q \in BagToSet(inflight), ok \in BOOLEAN : ConnectSettle(q, ok)
  \/ \E q \in BagToSet(inflight), ok \in BOOLEAN : DbSettle(q, ok)
  \/ Health
  \/ \E sig \in Signals : Signal(sig)
  \/ \E sig \in Signals : CloseSettle(sig)
  \/ \E sig \in Signals : Exit(sig)
  \/ Forget

Spec == Init /\ [][Next]_vars

SeqNext ==
  \/ \E a \in ActionNames, b \in Bodies : inflight = EmptyBag /\ ActionRequest(a, b)
  \/ \E q \in BagToSet(inflight), ok \in BOOLEAN : ConnectSettle(q, ok)
  \/ \E q \in BagToSet(inflight), ok \in BOOLEAN : DbSettle(q, ok)
  \/ Health
  \/ \E sig \in Signals : Signal(sig)
  \/ \E sig \in Signals : CloseSettle(sig)
  \/ \E sig \in Signals : Exit(sig)
  \/ Forget

SeqSpec == Init /\ [][SeqNext]_vars

\* --------------------------------- the DatabaseManager under arbitrary callers
\* dbManager is exported: any caller may call connect, getDatabase and close
\* in any order, each call running to its first await.
Pending(op, cl) == [op |-> op, cl |-> cl]

\* connect(uri) up to `await this.client.connect()`, or through when a client
\* exists.
MConnect ==
  /\ Quiet
  /\ IF connectCreates
       THEN /\ HasFresh
            /\ BagCardinality(calls) < MaxCalls
            /\ client' = Fresh
            /\ connState' = [connState EXCEPT ![Fresh] = "pending"]
            /\ createdSinceClose' = createdSinceClose + 1
            /\ calls' = calls (+) SetToBag({Pending("connect", Fresh)})
            /\ ret' = [op |-> "connect", acted |-> TRUE]
       ELSE /\ ret' = [op |-> "connect", acted |-> FALSE]
            /\ UNCHANGED <<client, connState, createdSinceClose, calls>>
  /\ UNCHANGED <<hasUri, databases, madeSinceClose, closeState, inflight, shutdown, server, reply>>

\* `await this.client.connect()` settles for the connect call k.
MConnectSettle(k, ok) ==
  /\ Quiet
  /\ k \in BagToSet(calls)
  /\ k.op = "connect"
  /\ connState' = [connState EXCEPT ![k.cl] = IF ok THEN "ok" ELSE "failed"]
  /\ calls' = calls (-) SetToBag({k})
  /\ ret' = [op |-> "connected", ok |-> ok]
  /\ UNCHANGED <<hasUri, client, databases, madeSinceClose, closeState, inflight, shutdown,
                 server, reply, createdSinceClose>>

\* getDatabase(name)
MGetDatabase(name) ==
  /\ Quiet
  /\ IF getDatabaseThrows
       THEN /\ ret' = [op |-> "getDatabase", name |-> name, threw |-> TRUE,
                       hit |-> FALSE, handle |-> NoClient, connected |-> ConnectSucceeded]
            /\ UNCHANGED <<databases, madeSinceClose>>
       ELSE /\ ret' = [op |-> "getDatabase", name |-> name, threw |-> FALSE,
                       hit |-> ~getDatabaseMisses(name),
                       handle |-> getDatabaseReturn(name), connected |-> ConnectSucceeded]
            /\ databases' = getDatabaseCache(name)
            /\ madeSinceClose' = getDatabaseMade(name)
  /\ UNCHANGED <<hasUri, client, connState, closeState, inflight, shutdown,
                 server, calls, reply, createdSinceClose>>

\* close() up to `await this.client.close()`, or through when no client exists.
MClose ==
  /\ Quiet
  /\ IF closeActs
       THEN /\ BagCardinality(calls) < MaxCalls
            /\ closeState' = [closeState EXCEPT ![client] = "closing"]
            /\ calls' = calls (+) SetToBag({Pending("close", client)})
            /\ ret' = [op |-> "close", acted |-> TRUE]
       ELSE /\ ret' = [op |-> "close", acted |-> FALSE]
            /\ UNCHANGED <<closeState, calls>>
  /\ UNCHANGED <<hasUri, client, databases, madeSinceClose, connState, inflight, shutdown,
                 server, reply, createdSinceClose>>

\* `await this.client.close()` settles for the close call k: client and cache
\* are reset.
MCloseSettle(k) ==
  /\ Quiet
  /\ k \in BagToSet(calls)
  /\ k.op = "close"
  /\ client' = closeClient
  /\ databases' = closeDatabases
  /\ madeSinceClose' = [n \in DbNames |-> 0]
  /\ createdSinceClose' = 0
  /\ closeState' = [closeState EXCEPT ![k.cl] = "closed"]
  /\ calls' = calls (-) SetToBag({k})
  /\ ret' = [op |-> "closed"]
  /\ UNCHANGED <<hasUri, connState, inflight, shutdown, server, reply>>

ManagerNext ==
  \/ MConnect
  \/ \E k \in BagToSet(calls), ok \in BOOLEAN : MConnectSettle(k, ok)
  \/ \E name \in DbNames : MGetDatabase(name)
  \/ MClose
  \/ \E k \in BagToSet(calls) : MCloseSettle(k)
  \/ Forget

ManagerSpec == Init /\ [][ManagerNext]_vars

\* ==================================================================== claims
MissingEnvelope(b) == Falsy(b.dataSource) \/ Falsy(b.database) \/ Falsy(b.collection)
ValidEnvelope(b) == ~MissingEnvelope(b)
\* An action segment that is present and is none of the nine names.
UnknownName(a) == a # "" /\ a \notin Supported
\* The error_code of a response body, "" when it has none.
Code(r) == IF "error_code" \in DOMAIN r.body THEN r.body.error_code ELSE ""
IsActionReply == reply.kind = "action"

\* C1: every action request whose envelope lacks dataSource, database or
\* collection (absent or falsy) is answered 400 with error_code
\* INVALID_REQUEST, whatever the action name and the connection state.
C1_MissingFieldIsInvalidRequest ==
  (IsActionReply /\ MissingEnvelope(reply.envelope))
    => (reply.status = 400 /\ Code(reply) = "INVALID_REQUEST")

\* C2 as claimed: a valid envelope with an unknown action name is answered 400
\* INVALID_ACTION in every connection state, and nothing is called on the
\* database (no connect, no handler).
C2_UnknownActionAlwaysInvalidAction ==
  (IsActionReply /\ ValidEnvelope(reply.envelope) /\ UnknownName(reply.action))
    => /\ reply.status = 400
       /\ Code(reply) = "INVALID_ACTION"
       /\ reply.connect = "none"
       /\ reply.handler = "none"

\* C2 as amended: a valid envelope with an unknown action name is answered 400
\* INVALID_ACTION when the manager is connected as the request arrives or the
\* connect made for the request succeeds, 500 MONGODB_URI_MISSING when it is
\* not connected and no connection string is set, and 500 INTERNAL_ERROR when
\* the connect made for it fails; in no case does an operation handler run or
\* is getDatabase called.
C2_UnknownActionAfterConnection ==
  (IsActionReply /\ ValidEnvelope(reply.envelope) /\ UnknownName(reply.action))
    => /\ reply.handler = "none"
       /\ ret.op = "none"
       /\ (reply.wasConnected \/ reply.connect = "ok")
            => (reply.status = 400 /\ Code(reply) = "INVALID_ACTION")
       /\ (~reply.wasConnected /\ reply.connect = "none")
            => (~hasUri /\ reply.status = 500 /\ Code(reply) = "MONGODB_URI_MISSING")
       /\ reply.connect = "failed"
            => (reply.status = 500 /\ Code(reply) = "INTERNAL_ERROR")

\* C2 witness: INVALID_ACTION answered after the connect made for the request.
C2_Witness ==
  /\ IsActionReply
  /\ UnknownName(reply.action)
  /\ reply.connect = "ok"
  /\ Code(reply) = "INVALID_ACTION"

\* C3: when handleAction returned a payload, the status is 400 exactly when
\* the payload has an error field and 200 otherwise, and the body is that
\* payload.
C3_StatusFollowsErrorField ==
  (IsActionReply /\ reply.result # NoResult)
    => /\ reply.status = 400 <=> "error" \in DOMAIN reply.result
       /\ reply.status = 200 <=> "error" \notin DOMAIN reply.result
       /\ reply.body = reply.result

\* C3 witness: a handler's error payload answered with 400.
C3_Witness ==
  /\ IsActionReply
  /\ reply.handler \in Supported
  /\ "error" \in DOMAIN reply.result
  /\ reply.status = 400

\* C4: a valid envelope arriving while the manager is not connected and no
\* connection string is set is answered 500 MONGODB_URI_MISSING, with no
\* handler run and no client ever constructed; and MONGODB_URI_MISSING is
\* never the answer to a request that found the manager connected.
C4_UriMissing ==
  /\ (IsActionReply /\ ValidEnvelope(reply.envelope) /\ ~reply.wasConnected /\ ~hasUri)
       => /\ reply.status = 500
          /\ Code(reply) = "MONGODB_URI_MISSING"
          /\ reply.handler = "none"
          /\ reply.connect = "none"
          /\ client = NoClient
  /\ ~hasUri => (client = NoClient /\ \A c \in ClientIds : connState[c] = "unused")
  /\ (IsActionReply /\ Code(reply) = "MONGODB_URI_MISSING") => ~reply.wasConnected

\* C4 witness: MONGODB_URI_MISSING answered.
C4_Witness ==
  /\ IsActionReply
  /\ ValidEnvelope(reply.envelope)
  /\ ~hasUri
  /\ Code(reply) = "MONGODB_URI_MISSING"

\* C5: a request whose connect failed is answered 500 with exactly
\* {error: "Internal server error", error_code: "INTERNAL_ERROR"}, and no
\* operation handler ran for it.
C5_ConnectFailureIsInternalError ==
  (IsActionReply /\ reply.connect = "failed")
    => /\ reply.status = 500
       /\ reply.body = [error |-> "Internal server error", error_code |-> "INTERNAL_ERROR"]
       /\ reply.handler = "none"
       /\ reply.result = NoResult
       /\ ret.op = "none"

\* C5 witness: the answer to a request whose connect failed.
C5_Witness == IsActionReply /\ reply.connect = "failed" /\ reply.status = 500

\* The error code the claim gives each handler.
C6_CodeOf ==
  [a \in Supported |->
     CASE a = "findOne"    -> "FIND_ONE_ERROR"
       [] a = "find"       -> "FIND_ERROR"
       [] a = "insertOne"  -> "INSERT_ONE_ERROR"
       [] a = "insertMany" -> "INSERT_MANY_ERROR"
       [] a = "updateOne"  -> "UPDATE_ONE_ERROR"
       [] a = "updateMany" -> "UPDATE_MANY_ERROR"
       [] a = "deleteOne"  -> "DELETE_ONE_ERROR"
       [] a = "deleteMany" -> "DELETE_MANY_ERROR"
       [] a = "aggregate"  -> "AGGREGATE_ERROR"]

\* C6: a handler never throws: whatever fails inside it (getDatabase or the
\* driver call), it returns {error, error_code} with its own code, and the
\* request is never answered through the catch-all INTERNAL_ERROR.
C6_HandlersNeverThrow ==
  (IsActionReply /\ reply.handler \in Supported)
    => /\ reply.result # NoResult
       /\ reply.status # 500
       /\ Code(reply) # "INTERNAL_ERROR"
       /\ reply.failure # ""
            => /\ DOMAIN reply.body = {"error", "error_code"}
               /\ reply.body.error_code = C6_CodeOf[reply.handler]
       /\ reply.failure = "" => "error" \notin DOMAIN reply.body

\* C6 witness: getDatabase threw inside aggregate and AGGREGATE_ERROR came back.
C6_Witness ==
  /\ IsActionReply
  /\ reply.handler = "aggregate"
  /\ reply.failure = NotConnectedMessage
  /\ Code(reply) = "AGGREGATE_ERROR"

\* C7: between two resets by close at most one MongoClient is constructed,
\* however many connect calls overlap, and a connect call made while a
\* client exists constructs nothing and changes nothing.
C7_ConnectOnce ==
  /\ [](createdSinceClose <= 1)
  /\ [][(ret'.op = "connect" /\ client # NoClient)
          => UNCHANGED <<client, databases, connState, closeState, calls,
                         createdSinceClose>>]_vars

\* C7 witness: a second connect call while the first is still connecting.
C7_Witness ==
  /\ ret.op = "connect"
  /\ ~ret.acted
  /\ client # NoClient
  /\ connState[client] = "pending"
  /\ createdSinceClose = 1

\* C8: getDatabase throws exactly when no connect has succeeded since the
\* manager was created or last closed, and returns a handle otherwise.
C8_GetDatabaseNeedsSuccessfulConnect ==
  ret.op = "getDatabase" => (ret.threw <=> ~ret.connected)

\* C9: right after a close completes isConnected is false and the cache is
\* empty; a close called with no client changes nothing; and every handle
\* getDatabase returns is one of the current client, never of a client a
\* completed close has closed.
C9_CloseResets ==
  /\ [](ret.op = "closed" => (client = NoClient /\ databases = [n \in DbNames |-> NoClient]))
  /\ []((ret.op = "getDatabase" /\ ~ret.threw)
          => (ret.handle = client /\ closeState[ret.handle] # "closed"))
  /\ [][(ret'.op = "close" /\ client = NoClient)
          => UNCHANGED <<client, databases, connState, closeState, calls,
                         createdSinceClose>>]_vars

\* C9 witness: a handle of the second client, returned after the first client
\* was closed.
C9_Witness ==
  /\ ret.op = "getDatabase"
  /\ ~ret.threw
  /\ ret.handle = 2
  /\ closeState[1] = "closed"

\* C10: GET /health answers 200 with status "healthy" and mongoConnected equal
\* to isConnected() at that moment, and the step changes nothing but the reply.
C10_HealthIsPure ==
  /\ [](reply.kind = "health"
          => /\ reply.status = 200
             /\ reply.body.status = "healthy"
             /\ reply.body.mongoConnected = (client # NoClient))
  /\ [][reply'.kind = "health"
          => UNCHANGED <<hasUri, client, databases, connState, closeState,
                         inflight, shutdown, server, calls, ret,
                         createdSinceClose>>]_vars

\* C10 witness: a health reply of true while a connect is still in progress.
C10_Witness ==
  /\ reply.kind = "health"
  /\ reply.body.mongoConnected
  /\ \E q \in BagToSet(inflight) : q.pc = "connect"

\* A gracefulShutdown has begun: dbManager.close() has been called.
ShutdownBegun == \E sig \in Signals : shutdown[sig].pc # "idle"

\* C11: once a termination signal has started the shutdown no action request
\* is accepted any more, no MongoClient is constructed, and at exit every
\* MongoClient that was constructed is closed and the manager holds none.
C11_NoRequestAfterCloseBegan ==
  /\ [][ShutdownBegun => ~(\E a \in ActionNames, b \in Bodies : ActionRequest(a, b))]_vars
  /\ [][ShutdownBegun => \A c \in ClientIds : connState[c] = "unused" => connState'[c] = "unused"]_vars
  /\ [](server = "exited"
          => /\ client = NoClient
             /\ \A c \in ClientIds : connState[c] # "unused" => closeState[c] = "closed")

\* C12: between two resets by close at most one Db object is made per name,
\* so every getDatabase(name) returns the one cached handle of that name; a
\* non-empty cache implies a client exists, and every cached handle was made
\* from the current client.
C12_OneHandlePerName ==
  /\ \A n \in DbNames : madeSinceClose[n] <= 1
  /\ \A n \in DbNames :
       databases[n] # NoClient => (client # NoClient /\ databases[n] = client)
  /\ (ret.op = "getDatabase" /\ ~ret.threw)
       => /\ ret.handle = databases[ret.name]
          /\ madeSinceClose[ret.name] = 1

\* C12 witness: a getDatabase answered from the cache of the second client,
\* with both names cached.
C12_Witness ==
  /\ ret.op = "getDatabase"
  /\ ret.hit
  /\ client = 2
  /\ \A n \in DbNames : databases[n] = client

\* C13: after a connect attempt has failed isConnected is false, so no later
\* request is dispatched to a handler on the client that never connected: no
\* getDatabase inside a handler returns a handle of a client whose connect
\* failed.
C13_FailedConnectLeavesNotConnected ==
  /\ \A c \in ClientIds : (connState[c] = "failed" /\ client = c) => ~isConnected
  /\ (ret.op = "getDatabase" /\ ~ret.threw) => connState[ret.handle] # "failed"

\* A successfully connected client that no close has touched is held.
HoldsConnectedClient ==
  /\ client # NoClient
  /\ connState[client] = "ok"
  /\ closeState[client] = "open"

\* C14: while an operation handler runs, from its getDatabase to the end of
\* its driver call, the manager holds a successfully connected client;
\* getDatabase never throws the not-connected error inside a handler; and no
\* reply is a 400 whose handler failed with the not-connected error.
C14_HandlerHasConnectedClient ==
  /\ (\E q \in BagToSet(inflight) : q.pc = "db") => HoldsConnectedClient
  /\ ret.op = "getDatabase" => ~ret.threw
  /\ IsActionReply => ~(reply.status = 400 /\ reply.failure = NotConnectedMessage)

====
